---- MODULE Spec2Model ----
(***************************************************************************)
(* A model of src/scraper.py: the feed aggregation run (main) as a state   *)
(* machine, and its pure helpers (matches_keywords, entry_to_item,         *)
(* infer_ai_tags, xml_escape, the sort of main) as operators over strings. *)
(* Strings are TLA+ strings; Python's str methods are modelled character   *)
(* by character.                                                           *)
(***************************************************************************)
EXTENDS Integers, Sequences, FiniteSets, TLC

VARIABLES
    pc,                \* position of main: "start", "fetch", "enrich",
                       \* "write_json", "write_rss", "done", "error"; "idle" when main is not run
    config_file,       \* the file at CONFIG_PATH: "missing", "malformed" or a parsed record
    keywords,          \* main's local keywords
    sources,           \* main's local sources
    si,                \* number of entries of sources the loop of main has consumed
    items,             \* main's local items
    have_transformers, \* HAVE_TRANSFORMERS
    fetched,           \* history: the urls handed to fetch_feed, in order
    feedlog,           \* history: per consumed source, what fetch_feed did
    calls,             \* history: the summariser calls, in order
    news_json,         \* content of data/news.json
    feed_xml,          \* content of data/feed.xml
    mk_text,           \* matches_keywords: argument text
    mk_keywords,       \* matches_keywords: argument keywords
    mk_result,         \* matches_keywords: returned list
    st_entry,          \* entry_to_item: argument entry
    st_item,           \* entry_to_item: returned item
    so_in,             \* the sort of main: the list before
    so_out,            \* the sort of main: the list after
    fn_done            \* whether the pure function under check has been applied

mainVars == <<pc, config_file, keywords, sources, si, items, have_transformers,
              fetched, feedlog, calls, news_json, feed_xml>>
matchVars == <<mk_text, mk_keywords, mk_result>>
stripVars == <<st_entry, st_item>>
sortVars == <<so_in, so_out>>
vars == <<mainVars, matchVars, stripVars, sortVars, fn_done>>

(***************************************************************************)
(* Strings.                                                                *)
(***************************************************************************)

\* ord(c) of the characters the model's strings hold: tab, line feed, form
\* feed, carriage return, and printable ASCII but the grave accent.
CodePoint ==
    "\t" :> 9 @@ "\n" :> 10 @@ "\f" :> 12 @@ "\r" :> 13 @@ " " :> 32 @@ "!" :> 33
    @@ "\"" :> 34 @@ "#" :> 35 @@ "$" :> 36 @@ "%" :> 37 @@ "&" :> 38 @@ "'" :> 39
    @@ "(" :> 40 @@ ")" :> 41 @@ "*" :> 42 @@ "+" :> 43 @@ "," :> 44 @@ "-" :> 45
    @@ "." :> 46 @@ "/" :> 47 @@ "0" :> 48 @@ "1" :> 49 @@ "2" :> 50 @@ "3" :> 51
    @@ "4" :> 52 @@ "5" :> 53 @@ "6" :> 54 @@ "7" :> 55 @@ "8" :> 56 @@ "9" :> 57
    @@ ":" :> 58 @@ ";" :> 59 @@ "<" :> 60 @@ "=" :> 61 @@ ">" :> 62 @@ "?" :> 63
    @@ "@" :> 64 @@ "A" :> 65 @@ "B" :> 66 @@ "C" :> 67 @@ "D" :> 68 @@ "E" :> 69
    @@ "F" :> 70 @@ "G" :> 71 @@ "H" :> 72 @@ "I" :> 73 @@ "J" :> 74 @@ "K" :> 75
    @@ "L" :> 76 @@ "M" :> 77 @@ "N" :> 78 @@ "O" :> 79 @@ "P" :> 80 @@ "Q" :> 81
    @@ "R" :> 82 @@ "S" :> 83 @@ "T" :> 84 @@ "U" :> 85 @@ "V" :> 86 @@ "W" :> 87
    @@ "X" :> 88 @@ "Y" :> 89 @@ "Z" :> 90 @@ "[" :> 91 @@ "\\" :> 92 @@ "]" :> 93
    @@ "^" :> 94 @@ "_" :> 95 @@ "a" :> 97 @@ "b" :> 98 @@ "c" :> 99 @@ "d" :> 100
    @@ "e" :> 101 @@ "f" :> 102 @@ "g" :> 103 @@ "h" :> 104 @@ "i" :> 105 @@ "j" :> 106
    @@ "k" :> 107 @@ "l" :> 108 @@ "m" :> 109 @@ "n" :> 110 @@ "o" :> 111 @@ "p" :> 112
    @@ "q" :> 113 @@ "r" :> 114 @@ "s" :> 115 @@ "t" :> 116 @@ "u" :> 117 @@ "v" :> 118
    @@ "w" :> 119 @@ "x" :> 120 @@ "y" :> 121 @@ "z" :> 122 @@ "{" :> 123 @@ "|" :> 124
    @@ "}" :> 125 @@ "~" :> 126

\* The characters str.strip() removes.
Whitespace == {" ", "\t", "\n", "\r", "\f"}

CharAt(s, i) == SubSeq(s, i, i)

Ord(c) == CodePoint[c]

\* Python's str < str: lexicographic on code points.
RECURSIVE StrLess(_, _)
StrLess(a, b) ==
    IF a = b \/ Len(b) = 0 THEN FALSE
    ELSE IF Len(a) = 0 THEN TRUE
    ELSE IF Head(a) = Head(b) THEN StrLess(Tail(a), Tail(b))
    ELSE Ord(Head(a)) < Ord(Head(b))

\* c.lower() of the upper case letters
LowerCase ==
    "A" :> "a" @@ "B" :> "b" @@ "C" :> "c" @@ "D" :> "d" @@ "E" :> "e" @@ "F" :> "f" @@ "G" :> "g"
    @@ "H" :> "h" @@ "I" :> "i" @@ "J" :> "j" @@ "K" :> "k" @@ "L" :> "l" @@ "M" :> "m" @@ "N" :> "n"
    @@ "O" :> "o" @@ "P" :> "p" @@ "Q" :> "q" @@ "R" :> "r" @@ "S" :> "s" @@ "T" :> "t" @@ "U" :> "u"
    @@ "V" :> "v" @@ "W" :> "w" @@ "X" :> "x" @@ "Y" :> "y" @@ "Z" :> "z"

LowerChar(c) == IF c \in DOMAIN LowerCase THEN LowerCase[c] ELSE c

\* str.lower()
RECURSIVE Lower(_)
Lower(s) == IF Len(s) = 0 THEN "" ELSE LowerChar(Head(s)) \o Lower(Tail(s))

RECURSIVE LStrip(_)
LStrip(s) == IF Len(s) > 0 /\ Head(s) \in Whitespace THEN LStrip(Tail(s)) ELSE s

RECURSIVE RStrip(_)
RStrip(s) ==
    IF Len(s) > 0 /\ CharAt(s, Len(s)) \in Whitespace
    THEN RStrip(SubSeq(s, 1, Len(s) - 1))
    ELSE s

\* str.strip()
Strip(s) == RStrip(LStrip(s))

\* p in t
Contains(t, p) == \E i \in 0..(Len(t) - Len(p)) : SubSeq(t, i + 1, i + Len(p)) = p

\* s[:n]
Take(s, n) == IF Len(s) <= n THEN s ELSE SubSeq(s, 1, n)

\* s.replace(old, new), old not empty
RECURSIVE Replace(_, _, _)
Replace(s, old, new) ==
    IF Len(s) < Len(old) THEN s
    ELSE IF SubSeq(s, 1, Len(old)) = old
         THEN new \o Replace(SubSeq(s, Len(old) + 1, Len(s)), old, new)
         ELSE Head(s) \o Replace(Tail(s), old, new)

\* dict.get(key, default)
Get(d, key, default) == IF key \in DOMAIN d THEN d[key] ELSE default

\* Python's x or y on strings (and on None, modelled as a missing key)
OrElse(x, y) == IF Len(x) = 0 THEN y ELSE x

(***************************************************************************)
(* norm, matches_keywords.                                                 *)
(***************************************************************************)

norm(s) == Lower(s)

\* The test of one stripped, non-empty keyword against the normalised text.
KeywordHit_CaseSensitivePhrase(t, kw_clean) ==
    IF Head(kw_clean) = "\"" /\ CharAt(kw_clean, Len(kw_clean)) = "\""
    THEN Contains(t, SubSeq(kw_clean, 2, Len(kw_clean) - 1))
    ELSE Contains(t, Lower(kw_clean))

KeywordHit(t, kw_clean) ==
    IF Head(kw_clean) = "\"" /\ CharAt(kw_clean, Len(kw_clean)) = "\""
    THEN Contains(t, Lower(SubSeq(kw_clean, 2, Len(kw_clean) - 1)))
    ELSE Contains(t, Lower(kw_clean))

RECURSIVE MatchLoop(_, _)
MatchLoop(t, kws) ==
    IF Len(kws) = 0 THEN <<>>
    ELSE LET kw_clean == Strip(Head(kws))
             rest == MatchLoop(t, Tail(kws))
         IN  IF Len(kw_clean) = 0 THEN rest
             ELSE IF KeywordHit(t, kw_clean) THEN <<kw_clean>> \o rest
             ELSE rest

matches_keywords(text, kws) == MatchLoop(norm(text), kws)

(***************************************************************************)
(* entry_to_item.                                                          *)
(***************************************************************************)

SummaryMax == 1000

Digit(d) == CharAt("0123456789", d + 1)
Pad2(n) == Digit((n \div 10) % 10) \o Digit(n % 10)
Pad4(n) == Pad2(n \div 100) \o Pad2(n % 100)

\* datetime(*tp[:6], tzinfo=timezone.utc).isoformat()
IsoFormat(tp) ==
    Pad4(tp[1]) \o "-" \o Pad2(tp[2]) \o "-" \o Pad2(tp[3]) \o "T" \o
    Pad2(tp[4]) \o ":" \o Pad2(tp[5]) \o ":" \o Pad2(tp[6]) \o "+00:00"

\* Where the match of <.*?> that starts at the head of s ends, looking from
\* position j on: at the first ">", unless a line break comes before it ("."
\* matches no "\n"); 0 if there is no match.
RECURSIVE TagEnd(_, _)
TagEnd(s, j) ==
    IF j > Len(s) THEN 0
    ELSE IF CharAt(s, j) = ">" THEN j
    ELSE IF CharAt(s, j) = "\n" THEN 0
    ELSE TagEnd(s, j + 1)

\* re.sub(r"<.*?>", "", s)
RECURSIVE StripTags(_)
StripTags(s) ==
    IF Len(s) = 0 THEN ""
    ELSE LET e == IF Head(s) = "<" THEN TagEnd(s, 2) ELSE 0
         IN  IF e > 0 THEN StripTags(SubSeq(s, e + 1, Len(s)))
             ELSE Head(s) \o StripTags(Tail(s))

\* None and the empty tuple are both falsy: a missing time struct is <<>>.
entry_to_item(entry, source_url, kws) ==
    LET title == OrElse(Get(entry, "title", ""), "")
        summary == OrElse(OrElse(Get(entry, "summary", ""), Get(entry, "description", "")), "")
        link == OrElse(Get(entry, "link", ""), "")
        pp == Get(entry, "published_parsed", <<>>)
        published_parsed == IF Len(pp) = 0 THEN Get(entry, "updated_parsed", <<>>) ELSE pp
        iso == IF Len(published_parsed) > 0 THEN IsoFormat(SubSeq(published_parsed, 1, 6)) ELSE ""
        clean_summary == Take(StripTags(summary), SummaryMax)
        haystack == title \o "\n" \o clean_summary
    IN  [title |-> title,
         summary |-> clean_summary,
         link |-> link,
         source |-> source_url,
         published |-> iso,
         matched |-> matches_keywords(haystack, kws),
         ai_summary |-> "",
         ai_tags |-> <<>>]

(***************************************************************************)
(* xml_escape, infer_ai_tags.                                              *)
(***************************************************************************)

\* What the four replace calls of xml_escape make of one character: "&" is
\* replaced first, so the "&" of an entity is not escaped again.
EscapeChar(c) ==
    CASE c = "&" -> "&amp;"
      [] c = "<" -> "&lt;"
      [] c = ">" -> "&gt;"
      [] c = "\"" -> "&quot;"
      [] OTHER -> c

RECURSIVE xml_escape(_)
xml_escape(s) == IF Len(s) = 0 THEN "" ELSE EscapeChar(Head(s)) \o xml_escape(Tail(s))

\* The add_if calls of infer_ai_tags, in order: <<substr, label>>.
TagRules ==
    << <<"hydrogen", "Hydrogen">>,
       <<"fuel cell", "Fuel cells">>,
       <<"net zero", "Net zero">>,
       <<"decarbonis", "Decarbonisation">>,
       <<"industrial strategy", "Industrial strategy">>,
       <<"manufactur", "Manufacturing">>,
       <<"supply chain", "Supply chains">>,
       <<"semiconductor", "Semiconductors">>,
       <<"chips act", "CHIPS / semiconductors">>,
       <<"ira ", "US IRA">>,
       <<"r&d", "R&D">>,
       <<"research and development", "R&D">>,
       <<"innovation", "Innovation">>,
       <<"clean energy", "Clean energy">>,
       <<"heat pump", "Heat pumps">>,
       <<"nuclear", "Nuclear">>,
       <<"small modular reactor", "SMRs">>,
       <<"trade", "Trade">>,
       <<"export", "Trade">> >>

\* sorted(tags) of a set of strings
RECURSIVE SortedStrings(_)
SortedStrings(S) ==
    IF S = {} THEN <<>>
    ELSE LET m == CHOOSE x \in S : \A y \in S \ {x} : StrLess(x, y)
         IN  <<m>> \o SortedStrings(S \ {m})

infer_ai_tags(text) ==
    LET t == Lower(text)
        tags == {TagRules[r][2] : r \in {q \in 1..Len(TagRules) : Contains(t, TagRules[q][1])}}
    IN  SortedStrings(tags)

(***************************************************************************)
(* The sort of main: items.sort(key=..., reverse=True).  list.sort is      *)
(* stable, and with reverse=True equal keys keep their original order.     *)
(***************************************************************************)

SortKey(item) == OrElse(item.published, "")

\* The rank an unstable choice would give: elements of an equal key in reverse
\* order, as sorting ascending and then reversing the list does.
RankDesc_AscendingThenReversed(its, i) ==
    1 + Cardinality({j \in 1..Len(its) : StrLess(SortKey(its[i]), SortKey(its[j]))})
      + Cardinality({j \in (i + 1)..Len(its) : SortKey(its[j]) = SortKey(its[i])})

\* Where the element at position i of its goes: after every element with a
\* larger key, and after the elements with an equal key that come before it.
RankDesc(its, i) ==
    1 + Cardinality({j \in 1..Len(its) : StrLess(SortKey(its[i]), SortKey(its[j]))})
      + Cardinality({j \in 1..(i - 1) : SortKey(its[j]) = SortKey(its[i])})

SortItems(its) ==
    LET ranked == {<<RankDesc(its, i), i>> : i \in 1..Len(its)}
    IN  [p \in 1..Len(its) |-> its[(CHOOSE r \in ranked : r[1] = p)[2]]]

(***************************************************************************)
(* add_ai_fields.  Positions are 1-based: position i is Python's idx i-1.  *)
(* The summariser is a boolean (None or the pipeline); service[i] is what  *)
(* the pipeline does when called for position i.                           *)
(***************************************************************************)

max_items == 50
MinInputLen == 40
InputMax == 900

\* get_summarizer() is not None
get_summarizer(have) == have

SummaryInput(item) == Replace(Strip(item.title \o ". " \o item.summary), "\n", " ")

TagText(item) == item.title \o " " \o item.summary

WithTags(item) == [item EXCEPT !.ai_tags = infer_ai_tags(TagText(item))]

\* The if/else of the loop body: whether the summariser is called for the item.
Summarised(item) == Len(SummaryInput(item)) >= MinInputLen

\* The try/except around the call of the summariser: what the call leaves in
\* ai_summary, and whether an exception leaves the loop body.
CallSummariser_Uncaught(result) ==
    [raised |-> result.raised,
     ai_summary |-> IF result.raised THEN "" ELSE Strip(result.summary_text)]

CallSummariser(result) ==
    [raised |-> FALSE,
     ai_summary |-> IF result.raised THEN "" ELSE Strip(result.summary_text)]

\* The break of the loop, after the item at position idx.
LoopBreaks_Never(idx) == FALSE

LoopBreaks(idx) == idx >= max_items

\* The last position the loop handles: the first at which it breaks, or the
\* last of the list.
LoopEnd(its) ==
    LET breaks == {idx \in 1..Len(its) : LoopBreaks(idx)}
    IN  IF breaks = {} THEN Len(its) ELSE CHOOSE idx \in breaks : \A k \in breaks : idx <= k

\* The first position at which an exception leaves the loop; 0 if none does.
LoopAbort(its, service) ==
    LET aborts == {idx \in 1..LoopEnd(its) :
                      Summarised(its[idx]) /\ CallSummariser(service[idx]).raised}
    IN  IF aborts = {} THEN 0 ELSE CHOOSE idx \in aborts : \A k \in aborts : idx <= k

\* The body of the loop for the item at position idx.
LoopBody(item, idx, service) ==
    WithTags([item EXCEPT !.ai_summary =
                 IF Summarised(item) THEN CallSummariser(service[idx]).ai_summary ELSE ""])

\* The summariser calls of the loop up to position last, in order.
LoopCalls(its, service, last) ==
    LET called == {idx \in 1..last : Summarised(its[idx])}
    IN  [k \in 1..Cardinality(called) |->
            LET idx == CHOOSE c \in called : Cardinality({d \in called : d < c}) = k - 1
            IN  [idx |-> idx,
                 input |-> Take(SummaryInput(its[idx]), InputMax),
                 raised |-> service[idx].raised]]

\* for idx, item in enumerate(items): each pass changes its own item only.
SummariseLoop(its, service) ==
    LET end == LoopEnd(its)
        abort == LoopAbort(its, service)
        done == IF abort > 0 THEN abort - 1 ELSE end
    IN  [raised |-> abort > 0,
         items |-> [i \in 1..Len(its) |->
                       IF i <= done THEN LoopBody(its[i], i, service) ELSE its[i]],
         calls |-> LoopCalls(its, service, IF abort > 0 THEN abort ELSE end)]

\* for item in items[max_items:]
TagRest_Skipped(its) == its

TagRest(its) == [i \in 1..Len(its) |-> IF i > max_items THEN WithTags(its[i]) ELSE its[i]]

\* The branch of a missing summariser.
TagAll(its) == [i \in 1..Len(its) |-> WithTags(its[i])]

\* raised: whether an exception leaves add_ai_fields.
add_ai_fields(its, have, service) ==
    IF ~get_summarizer(have)
    THEN [raised |-> FALSE, items |-> TagAll(its), calls |-> <<>>]
    ELSE LET r == SummariseLoop(its, service)
         IN  IF r.raised THEN r
             ELSE [raised |-> FALSE, items |-> TagRest(r.items), calls |-> r.calls]

(***************************************************************************)
(* The inputs of a run: the configuration file, what each feed returns,    *)
(* what the summariser does.                                               *)
(***************************************************************************)

MaxSources == 2
MaxEntries == 1

Seqs(S, n) == UNION {[1..k -> S] : k \in 0..n}

\* Entries of rss_sources: empty, blank, and a url with blanks around it.
SourceUrls == {"", " ", " a "}

ConfigKeywords == <<"hydrogen", "\"net zero\"">>

ConfigFiles ==
    {[state |-> "missing"], [state |-> "malformed"]}
    \cup {[state |-> "ok", json |-> [keywords |-> ConfigKeywords, rss_sources |-> srcs]] :
            srcs \in Seqs(SourceUrls, MaxSources)}
    \cup {[state |-> "ok", json |-> [html_sources |-> <<>>]]}

\* Feed entries as feedparser returns them (a key may be missing).
EntryLong ==
    [title |-> "UK Hydrogen strategy",
     summary |-> "<p>Net Zero <b>trade</b> export</p>",
     link |-> "http://x/1",
     published |-> "Fri, 01 Mar 2024 09:30:00 GMT",
     published_parsed |-> <<2024, 3, 1, 9, 30, 0, 4, 61, 0>>]

EntryUndated ==
    [title |-> "Weather", description |-> "Sunny", link |-> "http://x/2",
     updated |-> "yesterday"]

EntryNewest ==
    [title |-> "Chips Act", link |-> "http://x/3",
     published_parsed |-> <<2024, 6, 1, 0, 0, 0, 5, 153, 0>>]

EntryUniverse == {EntryLong, EntryUndated}

\* A feed of max_items entries, all newer than the entries of EntryUniverse.
BulkFeed == [i \in 1..max_items |-> EntryNewest]

\* What feedparser.parse does for one url: it raises, or returns a feed.
FetchResults ==
    {[raised |-> TRUE, feed |-> [entries |-> <<>>]]}
    \cup {[raised |-> FALSE, feed |-> [entries |-> es]] :
            es \in Seqs(EntryUniverse, MaxEntries) \cup {BulkFeed}}

\* What one call of the pipeline does: it raises, or returns a summary.
ServiceResults ==
    {[raised |-> TRUE, summary_text |-> ""],
     [raised |-> FALSE, summary_text |-> " Hydrogen plan. "]}

\* datetime.now(timezone.utc).isoformat() of the run
NowIso == "2026-11-06T09:00:00.250000+00:00"

\* The output files before the run.
PrevNews == [generated_at |-> "2026-11-05T09:00:00.250000Z", keywords |-> <<>>,
             count |-> 0, items |-> <<>>]
PrevFeed == [lastBuildDate |-> "2026-11-05T09:00:00.250000Z", items |-> <<>>]

(***************************************************************************)
(* fetch_feed and the steps of main.                                       *)
(***************************************************************************)

\* load_config: open and json.load raise on a missing or malformed file.
load_config_DefaultsOnError(file) ==
    [raised |-> FALSE, value |-> IF file.state = "ok" THEN file.json ELSE [keywords |-> <<>>]]

load_config(file) ==
    IF file.state = "ok"
    THEN [raised |-> FALSE, value |-> file.json]
    ELSE [raised |-> TRUE, value |-> <<>>]

\* fetch_feed: the try/except around feedparser.parse.
fetch_feed_Uncaught(result) == [raised |-> result.raised, value |-> result.feed]

fetch_feed(result) ==
    [raised |-> FALSE,
     value |-> IF result.raised THEN [entries |-> <<>>] ELSE result.feed]

\* The items one feed adds.
FeedItems(feed, url, kws) ==
    LET es == Get(feed, "entries", <<>>)
    IN  [i \in 1..Len(es) |-> entry_to_item(es[i], url, kws)]

\* url = (url or "").strip()
CleanUrl(url) == Strip(OrElse(url, ""))

\* if not url: continue
SourceSkipped_Unstripped(url) == Len(OrElse(url, "")) = 0

SourceSkipped(url) == Len(CleanUrl(url)) = 0

RssItem(item, generated_at) ==
    [title |-> xml_escape(Get(item, "title", "")),
     link |-> xml_escape(Get(item, "link", "")),
     description |-> xml_escape(OrElse(OrElse(Get(item, "ai_summary", ""),
                                              Get(item, "summary", "")), "")),
     pubDate |-> xml_escape(OrElse(Get(item, "published", ""), generated_at))]

GeneratedAt == Replace(NowIso, "+00:00", "Z")

pureIdle ==
    /\ mk_text = "" /\ mk_keywords = <<>> /\ mk_result = <<>>
    /\ st_entry = <<>> /\ st_item = <<>>
    /\ so_in = <<>> /\ so_out = <<>>
    /\ fn_done = FALSE

Init ==
    /\ pc = "start"
    /\ config_file \in ConfigFiles
    /\ have_transformers \in BOOLEAN
    /\ keywords = <<>> /\ sources = <<>> /\ si = 0 /\ items = <<>>
    /\ fetched = <<>> /\ feedlog = <<>> /\ calls = <<>>
    /\ news_json = PrevNews /\ feed_xml = PrevFeed
    /\ pureIdle

pureVars == <<matchVars, stripVars, sortVars, fn_done>>

\* cfg = load_config(CONFIG_PATH) and the three cfg.get: nothing in main
\* catches what load_config raises.
LoadConfig ==
    /\ pc = "start"
    /\ LET cfg == load_config(config_file)
       IN  IF cfg.raised
           THEN /\ pc' = "error"
                /\ UNCHANGED <<keywords, sources>>
           ELSE /\ keywords' = Get(cfg.value, "keywords", <<>>)
                /\ sources' = Get(cfg.value, "rss_sources", <<>>)
                /\ pc' = "fetch"
    /\ UNCHANGED <<config_file, si, items, have_transformers, fetched, feedlog,
                   calls, news_json, feed_xml, pureVars>>

\* One pass of "for url in sources" on a blank url.
SkipSource ==
    /\ pc = "fetch" /\ si < Len(sources)
    /\ SourceSkipped(sources[si + 1])
    /\ si' = si + 1
    /\ feedlog' = Append(feedlog, [url |-> sources[si + 1], fetched |-> FALSE,
                                   raised |-> FALSE, entries |-> <<>>])
    /\ UNCHANGED <<pc, config_file, keywords, sources, items, have_transformers,
                   fetched, calls, news_json, feed_xml, pureVars>>

\* One pass of "for url in sources" on a url that is fetched.
FetchSource ==
    /\ pc = "fetch" /\ si < Len(sources)
    /\ ~SourceSkipped(sources[si + 1])
    /\ \E result \in FetchResults :
          LET url == CleanUrl(sources[si + 1])
              feed == fetch_feed(result)
          IN  /\ fetched' = Append(fetched, url)
              /\ feedlog' = Append(feedlog,
                    [url |-> sources[si + 1], fetched |-> TRUE,
                     raised |-> result.raised,
                     entries |-> Get(result.feed, "entries", <<>>)])
              /\ IF feed.raised
                 THEN pc' = "error" /\ UNCHANGED items
                 ELSE /\ items' = items \o FeedItems(feed.value, url, keywords)
                      /\ pc' = pc
    /\ si' = si + 1
    /\ UNCHANGED <<config_file, keywords, sources, have_transformers,
                   calls, news_json, feed_xml, pureVars>>

\* items.sort(...), once the loop over sources has ended.  USE_HTML_SCRAPING
\* is False: html_sources is [] and the scraping block is not run.
SortStep ==
    /\ pc = "fetch" /\ si = Len(sources)
    /\ items' = SortItems(items)
    /\ pc' = "enrich"
    /\ UNCHANGED <<config_file, keywords, sources, si, have_transformers, fetched,
                   feedlog, calls, news_json, feed_xml, pureVars>>

\* The positions whose summary input is long enough for the pipeline.
LongPositions(its) == {i \in 1..Len(its) : Len(SummaryInput(its[i])) >= MinInputLen}

\* add_ai_fields(items)
Enrich ==
    /\ pc = "enrich"
    /\ \E service \in [LongPositions(items) -> ServiceResults] :
          LET r == add_ai_fields(items, have_transformers, service)
          IN  /\ items' = r.items
              /\ calls' = r.calls
              /\ pc' = IF r.raised THEN "error" ELSE "write_json"
    /\ UNCHANGED <<config_file, keywords, sources, si, have_transformers, fetched,
                   feedlog, news_json, feed_xml, pureVars>>

\* json.dump(payload, f)
WriteJson ==
    /\ pc = "write_json"
    /\ news_json' = [generated_at |-> GeneratedAt, keywords |-> keywords,
                     count |-> Len(items), items |-> items]
    /\ pc' = "write_rss"
    /\ UNCHANGED <<config_file, keywords, sources, si, items, have_transformers,
                   fetched, feedlog, calls, feed_xml, pureVars>>

\* f_rss.write(rss)
WriteRss ==
    /\ pc = "write_rss"
    /\ feed_xml' = [lastBuildDate |-> xml_escape(GeneratedAt),
                    items |-> [i \in 1..Len(Take(items, max_items)) |->
                                  RssItem(items[i], GeneratedAt)]]
    /\ pc' = "done"
    /\ UNCHANGED <<config_file, keywords, sources, si, items, have_transformers,
                   fetched, feedlog, calls, news_json, pureVars>>

Next ==
    \/ LoadConfig
    \/ SkipSource
    \/ FetchSource
    \/ SortStep
    \/ Enrich
    \/ WriteJson
    \/ WriteRss

Spec == Init /\ [][Next]_vars

\* main has a statement left to run: exactly then a step of Next is possible,
\* and every step of Next changes pc or si.
Running == pc \in {"start", "fetch", "enrich", "write_json", "write_rss"}

\* Every call main makes returns, so a run that has a statement left goes on
\* to run it.  This is weak fairness of Next, with ENABLED <<Next>>_vars
\* written as the state predicate Running that it equals.
FairSpec == Spec /\ ([]<>(~Running) \/ []<><<Next>>_vars)

(***************************************************************************)
(* matches_keywords on its own: every text and keyword list of the bounds. *)
(***************************************************************************)

MaxTextLen == 2
MaxKeywords == 2

RECURSIVE Strings(_, _)
Strings(chars, n) ==
    IF n = 0 THEN {""}
    ELSE Strings(chars, n - 1) \cup {s \o c : s \in Strings(chars, n - 1), c \in chars}

TextChars == {"n", "N", " ", "\""}

\* Keyword entries: empty, blank, bare, padded, quoted, quoted and empty, a
\* lone quote, a quoted blank, a quoted phrase ending in a blank, half quoted.
KeywordUniverse ==
    {"", " ", "n", " N ", "\"n\"", "\"\"", "\"", "\" \"", "\"N \"", "n\""}

mainIdle ==
    /\ pc = "idle"
    /\ config_file = [state |-> "missing"]
    /\ have_transformers = FALSE
    /\ keywords = <<>> /\ sources = <<>> /\ si = 0 /\ items = <<>>
    /\ fetched = <<>> /\ feedlog = <<>> /\ calls = <<>>
    /\ news_json = PrevNews /\ feed_xml = PrevFeed

MatchInit ==
    /\ mainIdle
    /\ mk_text \in Strings(TextChars, MaxTextLen)
    /\ mk_keywords \in Seqs(KeywordUniverse, MaxKeywords)
    /\ mk_result = <<>>
    /\ st_entry = <<>> /\ st_item = <<>>
    /\ so_in = <<>> /\ so_out = <<>>
    /\ fn_done = FALSE

ApplyMatch ==
    /\ ~fn_done
    /\ mk_result' = matches_keywords(mk_text, mk_keywords)
    /\ fn_done' = TRUE
    /\ UNCHANGED <<mainVars, mk_text, mk_keywords, stripVars, sortVars>>

MatchNext == ApplyMatch

MatchSpec == MatchInit /\ [][MatchNext]_vars

(***************************************************************************)
(* entry_to_item on its own: every summary text of the bounds, as the      *)
(* entry's summary or as its description.                                  *)
(***************************************************************************)

MaxMarkupLen == 4

MarkupChars == {"<", ">", "b", "\n"}

MarkupEntries ==
    {[title |-> "t", summary |-> m] : m \in Strings(MarkupChars, MaxMarkupLen)}
    \cup {[description |-> m] : m \in Strings(MarkupChars, MaxMarkupLen)}

NoItem == entry_to_item(<<>>, "", <<>>)

StripInit ==
    /\ mainIdle
    /\ mk_text = "" /\ mk_keywords = <<>> /\ mk_result = <<>>
    /\ st_entry \in MarkupEntries
    /\ st_item = NoItem
    /\ so_in = <<>> /\ so_out = <<>>
    /\ fn_done = FALSE

ApplyEntryToItem ==
    /\ ~fn_done
    /\ st_item' = entry_to_item(st_entry, "a", ConfigKeywords)
    /\ fn_done' = TRUE
    /\ UNCHANGED <<mainVars, matchVars, st_entry, sortVars>>

StripNext == ApplyEntryToItem

StripSpec == StripInit /\ [][StripNext]_vars

(***************************************************************************)
(* The sort of main on its own: every list of the bounds, of items that    *)
(* differ in title and have one of two dates or none.                      *)
(***************************************************************************)

MaxSortLen == 3

SortEntries ==
    {[title |-> t, published_parsed |-> d] :
        t \in {"A", "B"},
        d \in {<<>>, <<2024, 1, 2, 0, 0, 0, 1, 2, 0>>, <<2024, 3, 1, 0, 0, 0, 4, 61, 0>>}}

SortUniverse == {entry_to_item(e, "a", <<>>) : e \in SortEntries}

SortInit ==
    /\ mainIdle
    /\ mk_text = "" /\ mk_keywords = <<>> /\ mk_result = <<>>
    /\ st_entry = <<>> /\ st_item = <<>>
    /\ so_in \in Seqs(SortUniverse, MaxSortLen)
    /\ so_out = <<>>
    /\ fn_done = FALSE

ApplySort ==
    /\ ~fn_done
    /\ so_out' = SortItems(so_in)
    /\ fn_done' = TRUE
    /\ UNCHANGED <<mainVars, matchVars, stripVars, so_in>>

SortNext == ApplySort

SortSpec == SortInit /\ [][SortNext]_vars

(***************************************************************************)
(* Properties.                                                             *)
(***************************************************************************)

Range(f) == {f[i] : i \in 1..Len(f)}

Count(f, x) == Cardinality({i \in 1..Len(f) : f[i] = x})

\* f and g hold the same elements the same number of times.
SameBag(f, g) ==
    /\ Len(f) = Len(g)
    /\ \A x \in Range(f) \cup Range(g) : Count(f, x) = Count(g, x)

\* What identifies the entry an item was made from.
ItemCore(item) == <<item.source, item.title, item.link>>

EntryCore(url, entry) == <<CleanUrl(url), Get(entry, "title", ""), Get(entry, "link", "")>>

\* The entries the consumed sources returned, in order, each with its url:
\* none for a source that was skipped or whose fetch failed.
RECURSIVE ReturnedCores(_)
ReturnedCores(log) ==
    IF Len(log) = 0 THEN <<>>
    ELSE LET last == log[Len(log)]
         IN  ReturnedCores(SubSeq(log, 1, Len(log) - 1)) \o
             (IF last.fetched /\ ~last.raised
              THEN [i \in 1..Len(last.entries) |-> EntryCore(last.url, last.entries[i])]
              ELSE <<>>)

WrittenCores == [i \in 1..Len(news_json.items) |-> ItemCore(news_json.items[i])]

NewsWritten == news_json.generated_at = GeneratedAt /\ news_json.items = items

FeedWritten == feed_xml.lastBuildDate = GeneratedAt

\* A url that holds nothing but white space.
IsBlank(url) == \A i \in 1..Len(url) : CharAt(url, i) \in Whitespace

\* C1: whatever the configured sources and whichever of them fail to fetch,
\* a run whose configuration has loaded reaches the point where both outputs
\* are written; a failing source contributes no item, and the written items
\* hold every entry of every source that was fetched and did not fail.
C1_RunSurvivesFailingSources ==
    /\ [](pc = "done" =>
            /\ NewsWritten /\ FeedWritten
            /\ Len(feedlog) = Len(sources)
            /\ SameBag(WrittenCores, ReturnedCores(feedlog)))
    /\ (pc = "fetch" ~> pc = "done")

C1_Witness ==
    /\ pc = "done"
    /\ \E k \in 1..Len(feedlog) : feedlog[k].raised
    /\ \E k \in 1..Len(feedlog) : ~feedlog[k].raised /\ Len(feedlog[k].entries) > 0
    /\ Len(news_json.items) > 0

\* C2: with the configuration file missing or malformed the run ends in the
\* error state, where it takes no further step; no feed is fetched and both
\* output files are as they were before the run.
C2_BadConfigStopsBeforeAnyOutput ==
    config_file.state # "ok" =>
        /\ pc \in {"start", "error"}
        /\ (pc = "start" => ENABLED LoadConfig)
        /\ (pc = "error" => ~ENABLED Next)
        /\ fetched = <<>> /\ feedlog = <<>> /\ items = <<>>
        /\ news_json = PrevNews /\ feed_xml = PrevFeed

C2_Witness == pc = "error" /\ config_file.state = "malformed"

\* The elements of f whose sort key is k, in their order in f.
WithKey(f, k) ==
    LET at == {i \in 1..Len(f) : SortKey(f[i]) = k}
    IN  [n \in 1..Cardinality(at) |->
            f[CHOOSE i \in at : Cardinality({j \in at : j < i}) = n - 1]]

\* C3: the sorted list is a permutation of the list, in descending order of
\* published; the items with an empty published come after all the others;
\* items with an equal published keep their relative order.
C3_SortStableDescending ==
    fn_done =>
        /\ SameBag(so_out, so_in)
        /\ \A i, j \in 1..Len(so_out) :
              i < j => ~StrLess(so_out[i].published, so_out[j].published)
        /\ \A i, j \in 1..Len(so_out) :
              so_out[i].published = "" /\ so_out[j].published # "" => j < i
        /\ \A k \in {SortKey(so_in[i]) : i \in 1..Len(so_in)} :
              WithKey(so_out, k) = WithKey(so_in, k)

C3_Witness ==
    /\ fn_done
    /\ so_out # so_in
    /\ \E i, j \in 1..Len(so_in) :
          /\ i < j
          /\ so_in[i].published = so_in[j].published
          /\ so_in[i].published # ""
          /\ so_in[i].title # so_in[j].title
    /\ \E i, j \in 1..Len(so_in) :
          i < j /\ so_in[i].published = "" /\ so_in[j].published # ""

\* r is a subsequence of l.
RECURSIVE IsSubseq(_, _)
IsSubseq(r, l) ==
    IF Len(r) = 0 THEN TRUE
    ELSE IF Len(l) = 0 THEN FALSE
    ELSE IF Head(r) = Head(l) THEN IsSubseq(Tail(r), Tail(l))
    ELSE IsSubseq(r, Tail(l))

IsQuoted(k) == Len(k) > 0 /\ Head(k) = "\"" /\ CharAt(k, Len(k)) = "\""

\* The phrase a keyword stands for: lowercased, without the first and the
\* last character when it starts and ends with a double quote.
PhraseOf(k) == Lower(IF IsQuoted(k) THEN SubSeq(k, 2, Len(k) - 1) ELSE k)

StrippedKeywords == [i \in 1..Len(mk_keywords) |-> Strip(mk_keywords[i])]

KeywordFound(k) == Len(k) > 0 /\ Contains(Lower(mk_text), PhraseOf(k))

\* C4, as amended: the result is, in configured order, the stripped form of
\* each configured entry that is not blank and whose phrase (of the stripped
\* form) is a substring of the lowercased text; it is a subsequence of the
\* list of stripped entries.
C4_MatchesAreStrippedEntriesInOrder ==
    fn_done =>
        /\ mk_result = SelectSeq(StrippedKeywords, KeywordFound)
        /\ IsSubseq(mk_result, StrippedKeywords)

\* C4, as claimed: the result is a subsequence of the configured list itself,
\* and a non-blank entry is in it exactly when its own lowercased form,
\* without its enclosing quotes, is a substring of the lowercased text.
C4_MatchesAreConfiguredEntries ==
    fn_done =>
        /\ IsSubseq(mk_result, mk_keywords)
        /\ \A i \in 1..Len(mk_keywords) :
              ~IsBlank(mk_keywords[i]) =>
                  (mk_keywords[i] \in Range(mk_result)
                      <=> Contains(Lower(mk_text), PhraseOf(mk_keywords[i])))

C4_Witness ==
    /\ fn_done
    /\ Len(mk_result) = 2
    /\ \E i \in 1..Len(mk_keywords) :
          /\ Strip(mk_keywords[i]) # mk_keywords[i]
          /\ Strip(mk_keywords[i]) \in Range(mk_result)
    /\ \E i \in 1..Len(mk_keywords) :
          IsQuoted(mk_keywords[i]) /\ mk_keywords[i] \in Range(mk_result)

\* An entry that carries no content: empty, blank, or a pair of quotes
\* around nothing.
NoContent(k) == Strip(k) = "" \/ Strip(k) = "\"\""

\* C5: no returned keyword is empty or blank, and an entry that carries no
\* content adds nothing to the result, whatever the text.
C5_NoContentlessKeywordReturned ==
    fn_done => \A j \in 1..Len(mk_result) : ~NoContent(mk_result[j])

\* The labels whose rule substring occurs in the lowercased title, a blank
\* and the summary of the item.
LabelsOf(item) ==
    {TagRules[r][2] : r \in {q \in 1..Len(TagRules) :
        Contains(Lower(item.title \o " " \o item.summary), TagRules[q][1])}}

\* Sorted, and no label twice.
StrictlySorted(f) == \A i, j \in 1..Len(f) : i < j => StrLess(f[i], f[j])

AfterEnrichment == pc \in {"write_json", "write_rss", "done"}

\* The positions the summariser is meant to be called for.
Eligible(i) == i <= max_items /\ Len(SummaryInput(items[i])) >= MinInputLen

\* A call of the summariser has failed.
SomeCallFailed == \E c \in 1..Len(calls) : calls[c].raised

\* C6: when a call of the summariser fails, add_ai_fields goes on: the item
\* has an empty ai_summary and its tags, every later eligible item is handed
\* to the summariser, and the run goes on to write both outputs.
C6_FailedSummaryDoesNotAbort ==
    /\ [](\A c \in 1..Len(calls) :
            calls[c].raised =>
                /\ AfterEnrichment
                /\ items[calls[c].idx].ai_summary = ""
                /\ Range(items[calls[c].idx].ai_tags) = LabelsOf(items[calls[c].idx])
                /\ \A i \in 1..Len(items) :
                      i > calls[c].idx /\ Eligible(i) =>
                          \E d \in 1..Len(calls) : d > c /\ calls[d].idx = i)
    /\ (SomeCallFailed ~> (pc = "done" /\ NewsWritten /\ FeedWritten))

C6_Witness ==
    /\ pc = "done"
    /\ \E c, d \in 1..Len(calls) :
          /\ c < d /\ calls[c].raised /\ ~calls[d].raised
          /\ items[calls[d].idx].ai_summary # ""

\* C7: once add_ai_fields has returned, every item of the list has as ai_tags
\* the sorted list, without repetition, of the labels whose rule matches it.
C7_EveryItemTagged ==
    AfterEnrichment =>
        \A i \in 1..Len(items) :
            /\ Range(items[i].ai_tags) = LabelsOf(items[i])
            /\ StrictlySorted(items[i].ai_tags)

C7_Witness ==
    /\ pc = "done"
    /\ have_transformers
    /\ Len(items) > max_items
    /\ items[Len(items)].title = EntryLong.title
    /\ items[Len(items)].ai_tags = <<"Hydrogen", "Net zero", "Trade">>
    /\ items[1].ai_tags = <<"CHIPS / semiconductors">>

\* C8: the summariser is called at most max_items times, for positions among
\* the first max_items of the list as sorted; an item has a summary only if
\* the summariser is there, the item is among the first max_items, its input
\* has at least 40 characters and its call succeeded.
C8_SummariesWithinCap ==
    /\ Len(calls) <= max_items
    /\ \A c \in 1..Len(calls) :
          /\ calls[c].idx \in 1..max_items
          /\ \A d \in 1..Len(calls) : c < d => calls[c].idx < calls[d].idx
    /\ Len(calls) > 0 =>
          /\ pc \notin {"start", "fetch"}
          /\ \A i, j \in 1..Len(items) :
                i < j => ~StrLess(items[i].published, items[j].published)
    /\ \A i \in 1..Len(items) :
          items[i].ai_summary # "" =>
              /\ have_transformers
              /\ Eligible(i)
              /\ \E c \in 1..Len(calls) : calls[c].idx = i /\ ~calls[c].raised
    /\ \A i \in 1..Len(items) : i > max_items => items[i].ai_summary = ""
    /\ ~have_transformers =>
          Len(calls) = 0 /\ \A i \in 1..Len(items) : items[i].ai_summary = ""

C8_Witness ==
    /\ pc = "done"
    /\ have_transformers
    /\ \E i \in 1..Len(items) :
          /\ i > max_items
          /\ Len(SummaryInput(items[i])) >= MinInputLen
          /\ items[i].ai_summary = ""

\* No "<" with a ">" somewhere after it.
NoMarkup(s) ==
    ~\E i, j \in 1..Len(s) : i < j /\ CharAt(s, i) = "<" /\ CharAt(s, j) = ">"

\* C9: the summary of the item made from an entry holds no markup, whatever
\* the entry's text, and at most 1000 characters.
C9_SummaryHasNoMarkup ==
    fn_done => NoMarkup(st_item.summary) /\ Len(st_item.summary) <= SummaryMax

\* The number of entries the consumed sources returned.
RECURSIVE EntriesReturned(_)
EntriesReturned(log) ==
    IF Len(log) = 0 THEN 0
    ELSE EntriesReturned(Tail(log)) +
         (IF Head(log).fetched /\ ~Head(log).raised THEN Len(Head(log).entries) ELSE 0)

\* The urls of the consumed sources that are not blank, stripped, in order.
RECURSIVE NonBlankUrls(_)
NonBlankUrls(log) ==
    IF Len(log) = 0 THEN <<>>
    ELSE (IF IsBlank(Head(log).url) THEN <<>> ELSE <<Strip(Head(log).url)>>)
         \o NonBlankUrls(Tail(log))

\* C10: the items of the payload are, one for one, the entries the sources
\* returned, and count is their number: an item with no match is kept, so are
\* two items with the same link; blank urls are not fetched, the others are.
C10_KeepAll ==
    /\ fetched = NonBlankUrls(feedlog)
    /\ \A k \in 1..Len(feedlog) : IsBlank(feedlog[k].url) <=> ~feedlog[k].fetched
    /\ pc \in {"write_rss", "done"} =>
          /\ Len(feedlog) = Len(sources)
          /\ news_json.count = EntriesReturned(feedlog)
          /\ news_json.count = Len(news_json.items)
          /\ SameBag(WrittenCores, ReturnedCores(feedlog))
          /\ news_json.keywords = keywords

C10_Witness ==
    /\ pc = "done"
    /\ news_json.count >= 2
    /\ news_json.items[1].link = news_json.items[2].link
    /\ news_json.items[1].matched = <<>>
    /\ \E k \in 1..Len(feedlog) : ~feedlog[k].fetched

====
